---- MODULE Spec2Model ----
(***************************************************************************)
(* Model of the chat core of prompt_manager's frontend                     *)
(* (components/PromptVariableModal.tsx, second half: ChatInterface):       *)
(*   - parseMessageContent, the tag tokenizer and text sanitizer;          *)
(*   - the approval state machine (votedActions, handleApproveAction,      *)
(*     handleDenyAction, PendingActionBlock);                              *)
(*   - the stream consumer (handleSubmit, handleStop).                     *)
(*                                                                         *)
(* A buffer is a sequence of lexical tokens.  Every token stands for a     *)
(* concrete piece of text that holds no '<' except as its first character, *)
(* so the regular expressions of the source can be evaluated token by      *)
(* token.  A length is a number of tokens.                                 *)
(***************************************************************************)
EXTENDS Integers, Sequences, FiniteSets, TLC

VARIABLES
    \* --- the tokenizer and the module-level state it shares between calls
    buffer,            \* the content handed to parseMessageContent
    segments,          \* what the call on buffer returned (empty until it is made)
    threw,             \* whether that call threw
    phase,             \* "new": buffer not parsed yet, "parsed": segments belong to buffer
    TAG_REGEX,         \* the module-level regex object (line 177)
    ATTR_REGEX_CACHE   \* line 181

parseVars == <<buffer, segments, threw, phase, TAG_REGEX, ATTR_REGEX_CACHE>>

VARIABLES
    \* --- ChatInterface: React state and refs
    messages,            \* useState: the conversation (line 326)
    loading,             \* useState (line 327)
    votedActions,        \* useState: request_id -> "approved" | "denied", "none" when absent (line 336)
    abortControllerRef,  \* useRef: 0 for null, else the stream whose controller it holds (line 339)
    \* --- asynchronous activities
    streams,             \* the handleSubmit invocations past their guard, each at an await
    calls,               \* the approve/deny requests in flight, each with the closure of its handler
    deletes,             \* the delete_message requests in flight, each with the index it was given
    crashed,             \* an exception escaped a state updater: React unmounted the component
    serverPendingCount,  \* useState: what the server last reported as pending (line 345)
    serverStatus,        \* the approval service: request_id -> "pending" | "approved" | "denied"
    \* --- history of what happened, read by the claims only
    alerts,              \* request_id -> number of alert() calls
    issued,              \* request_id -> number of approve/deny requests sent
    succeeded,           \* request_id -> number of requests the server answered with success
    failed,              \* request_id -> number of requests that failed
    followUps            \* request_id -> number of follow-up turns submitted

chatState == <<messages, loading, votedActions, abortControllerRef, streams, calls,
               deletes, crashed, serverPendingCount, serverStatus>>
chatHistory == <<alerts, issued, succeeded, failed, followUps>>
chatVars == <<chatState, chatHistory>>

vars == <<parseVars, chatVars>>

\* ------------------------------------------------------------------------
\* Bounds of the model
\* ------------------------------------------------------------------------
MaxLen == 5
\* the same for the buffers of approval requests, whose alphabet is larger
MaxPendingLen == 4
\* the same for the buffers of tool calls with arguments
MaxToolLen == 4
\* handleSubmit invocations that get past the guard in one run
MaxStreams == 2
\* approve/deny requests sent for one request_id in one run
MaxCalls == 2
\* delete_message requests in flight at a time
MaxDeletes == 2

\* ------------------------------------------------------------------------
\* Program constants (scaled to the token model)
\* ------------------------------------------------------------------------
\* The source counts UTF-16 code units where the model counts tokens; the
\* values keep the order of the source's:
\*   MAX_ITERATIONS < MAX_CONTENT_LENGTH < MAX_RESPONSE_LENGTH
MAX_CONTENT_LENGTH == 4
MAX_ITERATIONS == 1
MAX_CHUNKS == 3
MAX_RESPONSE_LENGTH == 5

\* ------------------------------------------------------------------------
\* Tokens
\* ------------------------------------------------------------------------
NoAttrs == <<>>

\* plain text without whitespace, e.g. "a"
Txt(c) == [k |-> "text", n |-> c, a |-> NoAttrs, sc |-> FALSE]
\* a blank, and a line feed
Ws == [k |-> "ws", n |-> " ", a |-> NoAttrs, sc |-> FALSE]
Nl == [k |-> "nl", n |-> "lf", a |-> NoAttrs, sc |-> FALSE]
\* a leaked tool header such as "GET MEMORY"
Hdr == [k |-> "hdr", n |-> "GET MEMORY", a |-> NoAttrs, sc |-> FALSE]
\* the raw JSON text  { "name": "f", "arguments": {} }
Json == [k |-> "json", n |-> "rawjson", a |-> NoAttrs, sc |-> FALSE]
\* an empty fenced code block
Fence == [k |-> "fence", n |-> "fence", a |-> NoAttrs, sc |-> FALSE]
\* <n a1="v1" ...>, and with sc the same ending in " />"
Open(n, a) == [k |-> "open", n |-> n, a |-> a, sc |-> FALSE]
SelfClosing(n, a) == [k |-> "open", n |-> n, a |-> a, sc |-> TRUE]
\* </n>
Close(n) == [k |-> "close", n |-> n, a |-> NoAttrs, sc |-> FALSE]

IsBlank(t) == t.k \in {"ws", "nl"}

\* content.trim() is not empty
TrimNonEmpty(s) == \E i \in 1..Len(s) : ~IsBlank(s[i])

\* String.prototype.slice(from, to) with 0-based offsets
Slice(s, from, to) == SubSeq(s, from + 1, to)

\* the names TAG_REGEX recognizes
TagNames == {"thought", "think", "tool_call", "tool_pending", "tool_result", "tool", "answer"}

\* StartsWith(m, n): the name m starts with the characters of n
StartsWith(m, n) ==
    \/ m = n
    \/ n = "tool" /\ m \in {"tool_call", "tool_pending", "tool_result"}

\* ------------------------------------------------------------------------
\* TAG_REGEX
\*   <(names)(?:\s+([^>]*?))?>(?:([^<]*(?:<(?![\/]?\1)[^<]*)*?)(?:<\/\1>|$))?
\*   |<(tool_pending)\s+([^>]*?)\s*\/>
\* The first alternative matches every opening tag of a recognized name,
\* the self-closing form included (its " /" then belongs to the attribute
\* group), so the second alternative never gets to match.
\* ------------------------------------------------------------------------
NoMatch == [index |-> -1, end |-> -1, closed |-> FALSE]

\* the lookahead (?![\/]?\1): a '<' the inner group may not step over
Blocks(t, name) == t.k \in {"open", "close"} /\ StartsWith(t.n, name)

\* the match that starts at the opening tag at offset i (0-based):
\* the inner group runs up to the first blocking '<'; it matches when that
\* is the closing tag of the same name or when it ran to the end of the
\* content, and otherwise the optional group matches nothing
MatchAt(content, i) ==
    LET name == content[i + 1].n
        B == {j \in (i + 2)..Len(content) : Blocks(content[j], name)}
    IN  IF B = {}
        THEN [index |-> i, end |-> Len(content), closed |-> FALSE]
        ELSE LET j == CHOOSE x \in B : \A y \in B : x <= y
             IN  IF content[j].k = "close" /\ content[j].n = name
                 THEN [index |-> i, end |-> j, closed |-> TRUE]
                 ELSE [index |-> i, end |-> i + 1, closed |-> FALSE]

\* RegExp.prototype.exec of a global regex: the leftmost match at or after
\* lastIndex, or null
TagExec(content, lastIndex) ==
    LET S == {i \in lastIndex..(Len(content) - 1) :
                 content[i + 1].k = "open" /\ content[i + 1].n \in TagNames}
    IN  IF S = {} THEN NoMatch
        ELSE MatchAt(content, CHOOSE x \in S : \A y \in S : x <= y)

\* ------------------------------------------------------------------------
\* getAttr and the attribute regexes.  An attribute string is a sequence of
\* <<name, value>> pairs, each standing for  name="value".
\* ------------------------------------------------------------------------
Null == "null"

HasAttr(attrs, name) == \E i \in 1..Len(attrs) : attrs[i][1] = name

FirstAttr(attrs, name) ==
    LET S == {i \in 1..Len(attrs) : attrs[i][1] = name}
    IN  IF S = {} THEN Null ELSE attrs[CHOOSE x \in S : \A y \in S : x <= y][2]

\* ATTR_REGEX_CACHE maps an attribute name to the regex compiled for it,
\* written here as the attribute name that regex looks for
CachedRegex(cache, name) == IF name \in DOMAIN cache THEN cache[name] ELSE name

CacheWith(cache, name) ==
    [x \in DOMAIN cache \cup {name} |-> IF x \in DOMAIN cache THEN cache[x] ELSE name]

getAttr(cache, tagContent, name) == FirstAttr(tagContent, CachedRegex(cache, name))

PendingAttrNames == <<"request_id", "tool", "action", "params_b64">>

\* ------------------------------------------------------------------------
\* Content of a segment: a piece of the buffer, or JSON.stringify of an
\* object (written as the tuple of its values)
\* ------------------------------------------------------------------------
RawContent(toks) == [form |-> "raw", toks |-> toks, obj |-> <<>>]
JsonContent(obj) == [form |-> "json", toks |-> <<>>, obj |-> obj]

Part(type, content, isStreaming, from, to) ==
    [type |-> type, content |-> content, isStreaming |-> isStreaming,
     from |-> from, to |-> to]

\* String.prototype.trim
Trim(s) ==
    LET N == {i \in 1..Len(s) : ~IsBlank(s[i])}
    IN  IF N = {} THEN <<>>
        ELSE SubSeq(s, CHOOSE x \in N : \A y \in N : x <= y,
                       CHOOSE x \in N : \A y \in N : x >= y)

\* ------------------------------------------------------------------------
\* params_b64: cleanB64 = paramsB64.trim().replace(/\s/g, ''), then
\* JSON.parse(atob(cleanB64)).  The values of the model:
\*   "eyJhIjoxfQ=="    base64 of {"a":1}
\*   "eyJh IjoxfQ=="   the same with a blank inside
\*   "bm9wZQ=="        base64 of nope, which is no JSON
\*   "%%%"             no base64
\* ------------------------------------------------------------------------
CleanB64(v) == IF v = "eyJh IjoxfQ==" THEN "eyJhIjoxfQ==" ELSE v

\* atob: the decoded text, or Null when atob throws
Atob(v) ==
    CASE v = "eyJhIjoxfQ==" -> "{\"a\":1}"
      [] v = "bm9wZQ==" -> "nope"
      [] OTHER -> Null

\* JSON.parse: the value (written as its canonical text), or Null when it throws
JsonParse(t) == IF t = "{\"a\":1}" THEN "{a:1}" ELSE Null

DecodeParams(paramsB64) ==
    LET t == Atob(CleanB64(paramsB64))
    IN  IF t = Null THEN Null ELSE JsonParse(t)

\* a value that is neither null nor the empty string
Truthy(v) == v # Null /\ v # ""

\* ------------------------------------------------------------------------
\* Argument extraction of the tool branch
\* ------------------------------------------------------------------------
\* ARGUMENT_REGEX: <argument name="..." value="..." /> (or without the slash)
IsArgument(t) ==
    /\ t.k = "open" /\ t.n = "argument" /\ Len(t.a) = 2
    /\ t.a[1][1] = "name" /\ t.a[2][1] = "value"

\* args[am[1]] = am[2] for every match, a later one overwriting an earlier
FlatArgs(inner) ==
    LET I == {i \in 1..Len(inner) : IsArgument(inner[i])}
        K == {inner[i].a[1][2] : i \in I}
    IN  [key \in K |->
            LET J == {i \in I : inner[i].a[1][2] = key}
            IN  <<Txt(inner[CHOOSE x \in J : \A y \in J : x >= y].a[2][2])>>]

\* DEEP_ARG_REGEX: <key>value</key>, matched from left to right without
\* overlap, the value running to the first </key>
DeepStart(inner, i) ==
    /\ inner[i].k = "open" /\ inner[i].a = NoAttrs /\ ~inner[i].sc
    /\ \E j \in (i + 1)..Len(inner) : inner[j].k = "close" /\ inner[j].n = inner[i].n

\* [mutant] no key is left out of the nested form
NoExcludedKeys == {}

ExcludedKeys == {"arguments", "thought", "think"}

RECURSIVE DeepArgs(_, _, _)
DeepArgs(inner, pos, args) ==
    LET S == {i \in pos..Len(inner) : DeepStart(inner, i)}
    IN  IF S = {} THEN args
        ELSE LET i == CHOOSE x \in S : \A y \in S : x <= y
                 C == {j \in (i + 1)..Len(inner) :
                          inner[j].k = "close" /\ inner[j].n = inner[i].n}
                 j == CHOOSE x \in C : \A y \in C : x <= y
                 key == inner[i].n
                 val == Trim(SubSeq(inner, i + 1, j - 1))
                 args2 == IF key \in ExcludedKeys THEN args
                          ELSE [x \in DOMAIN args \cup {key} |->
                                   IF x = key THEN val ELSE args[x]]
             IN  DeepArgs(inner, j + 1, args2)

EmptyArgs == [x \in {} |-> <<>>]

StartsWithBrace(inner) ==
    LET t == Trim(inner)
    IN  Len(t) > 0 /\ (t[1].k = "json" \/ (t[1].k = "text" /\ t[1].n = "{"))

\* the content of the tool segment (lines 243-269)
ToolContent(type, tagAttrs, tagInner) ==
    IF type = "tool" /\ HasAttr(tagAttrs, "name") /\ ~StartsWithBrace(tagInner)
    THEN LET flat == FlatArgs(tagInner)
             args == IF DOMAIN flat = {} THEN DeepArgs(tagInner, 1, EmptyArgs) ELSE flat
         IN  JsonContent(<<FirstAttr(tagAttrs, "name"), args>>)
    ELSE RawContent(tagInner)

\* ------------------------------------------------------------------------
\* Text sanitizer (lines 307-319)
\* ------------------------------------------------------------------------
\* /(?:GET|UPDATE|DELETE|SEARCH|WRITE)\s+(?:MEMORY|WEB|FILE)[\s\S]*?(\n|$)/gi:
\* from a header through the next line feed, or to the end
RECURSIVE StripHeaders(_)
StripHeaders(s) ==
    LET H == {i \in 1..Len(s) : s[i].k = "hdr"}
    IN  IF H = {} THEN s
        ELSE LET i == CHOOSE x \in H : \A y \in H : x <= y
                 L == {j \in (i + 1)..Len(s) : s[j].k = "nl"}
                 j == IF L = {} THEN Len(s) ELSE CHOOSE x \in L : \A y \in L : x <= y
             IN  SubSeq(s, 1, i - 1) \o StripHeaders(SubSeq(s, j + 1, Len(s)))

\* /\{\s*"name"\s*:\s*"[^"]+"\s*,\s*"arguments"[\s\S]*?\}/g: the lazy tail
\* stops at the first '}', which for Json is the one closing the arguments
\* object, so the last '}' stays
StripJson(s) == [i \in 1..Len(s) |-> IF s[i].k = "json" THEN Txt("}") ELSE s[i]]

\* /```[a-z]*\s*```/gi
StripFences(s) == SelectSeq(s, LAMBDA t : t.k # "fence")

Sanitize(s) == Trim(StripFences(StripJson(StripHeaders(s))))

CleanPart(p) ==
    IF p.type = "text" /\ p.content.form = "raw"
    THEN [p EXCEPT !.content = RawContent(Sanitize(p.content.toks))]
    ELSE p

\* .filter(p => p.type !== 'text' || p.content)
KeepPart(p) == p.type # "text" \/ p.content.toks # <<>>

CleanedParts(parts) == SelectSeq([i \in 1..Len(parts) |-> CleanPart(parts[i])], KeepPart)

\* ------------------------------------------------------------------------
\* parseMessageContent (lines 193-322)
\* ------------------------------------------------------------------------
\* a regex object: its lastIndex, and whether it is the module-level TAG_REGEX
ModuleTagRegex(lastIndex) == [shared |-> TRUE, lastIndex |-> lastIndex]

\* [mutant] const tagRegex = TAG_REGEX: the shared object and its lastIndex
SharedTagRegex(moduleRegex) == moduleRegex

\* const tagRegex = new RegExp(TAG_REGEX.source, TAG_REGEX.flags)
NewTagRegex(moduleRegex) == [shared |-> FALSE, lastIndex |-> 0]

\* the tool_pending branch (lines 272-290): the segments it pushes, the cache
\* it leaves, and whether it threw (match[2] || match[5] is undefined for a
\* tag without attributes, and getAttr calls .match on it)
PendingBranch(cache, tok, from, to) ==
    IF tok.a = NoAttrs /\ ~tok.sc
    THEN [threw |-> TRUE, push |-> <<>>, cache |-> CacheWith(cache, "request_id")]
    ELSE LET requestId == getAttr(cache, tok.a, "request_id")
             c1 == CacheWith(cache, "request_id")
             tool == getAttr(c1, tok.a, "tool")
             c2 == CacheWith(c1, "tool")
             action == getAttr(c2, tok.a, "action")
             c3 == CacheWith(c2, "action")
             paramsB64 == getAttr(c3, tok.a, "params_b64")
             c4 == CacheWith(c3, "params_b64")
             params == IF Truthy(paramsB64) THEN DecodeParams(paramsB64) ELSE Null
         IN  [threw |-> FALSE,
              push |-> IF Truthy(requestId) /\ Truthy(tool) /\ Truthy(action)
                          /\ Truthy(paramsB64) /\ params # Null
                       THEN <<Part("pending",
                                   JsonContent(<<requestId, tool, action, params>>),
                                   "undefined", from, to)>>
                       ELSE <<>>,
              cache |-> c4]

\* the segments one match pushes besides the text before it (lines 231-295)
TagBranch(cache, content, m) ==
    LET tok == content[m.index + 1]
        type == tok.n
        tagInner == Slice(content, m.index + 1, IF m.closed THEN m.end - 1 ELSE m.end)
    IN  CASE type \in {"thought", "think"} ->
               [threw |-> FALSE, cache |-> cache,
                push |-> <<Part("thought", RawContent(tagInner),
                                IF m.closed THEN "false" ELSE "true", m.index, m.end)>>]
          [] type \in {"tool_call", "tool"} ->
               [threw |-> FALSE, cache |-> cache,
                push |-> <<Part("tool", ToolContent(type, tok.a, tagInner),
                                "undefined", m.index, m.end)>>]
          [] type = "tool_pending" -> PendingBranch(cache, tok, m.index, m.end)
          [] type = "tool_result" -> [threw |-> FALSE, cache |-> cache, push |-> <<>>]
          [] OTHER ->
               [threw |-> FALSE, cache |-> cache,
                push |-> <<Part("text", RawContent(tagInner), "undefined", m.index, m.end)>>]

\* const textBefore = content.slice(lastIndex, match.index) (lines 226-229)
TextBefore(content, lastIndex, index) ==
    LET textBefore == Slice(content, lastIndex, index)
    IN  IF TrimNonEmpty(textBefore)
        THEN <<Part("text", RawContent(textBefore), "undefined", lastIndex, index)>>
        ELSE <<>>

\* [mutant] lastIndex is not advanced past the match
NextLastIndexStuck(lastIndex, m) == lastIndex

\* lastIndex = tagRegex.lastIndex (line 297)
NextLastIndex(lastIndex, m) == m.end

\* [mutant] the loop has no iteration limit
NeverOverLimit(iterations) == FALSE

\* if (iterations > MAX_ITERATIONS) (line 214)
OverLimit(iterations) == iterations > MAX_ITERATIONS

\* the while loop (lines 212-298).  It returns the parts pushed, the final
\* lastIndex, the lastIndex of the regex object and the cache; and, for the
\* claims, whether it stopped at the limit and the matches it processed.
RECURSIVE ScanLoop(_, _, _, _, _, _, _)

\* the rest of one iteration, given what the branch of the tag b did
\* (lines 226-297)
ScanBranch(content, m, b, lastIndex, iterations, parts, scan) ==
    IF b.threw
    THEN [threw |-> TRUE, parts |-> <<>>, lastIndex |-> lastIndex,
          rxLast |-> m.end, cache |-> b.cache, capped |-> FALSE,
          scan |-> Append(scan, m)]
    ELSE ScanLoop(content, m.end, NextLastIndex(lastIndex, m), iterations + 1,
                  parts \o TextBefore(content, lastIndex, m.index) \o b.push,
                  b.cache, Append(scan, m))

\* one iteration, given the result m of tagRegex.exec(content) (lines 212-224)
ScanMatch(content, m, lastIndex, iterations, parts, cache, scan) ==
    IF m.index < 0
    THEN [threw |-> FALSE, parts |-> parts, lastIndex |-> lastIndex,
          rxLast |-> 0, cache |-> cache, capped |-> FALSE, scan |-> scan]
    ELSE IF OverLimit(iterations + 1)
    THEN [threw |-> FALSE, parts |-> parts, lastIndex |-> lastIndex,
          rxLast |-> m.end, cache |-> cache, capped |-> TRUE, scan |-> scan]
    ELSE IF m.index = lastIndex /\ m.end = m.index
    THEN ScanLoop(content, m.end, lastIndex + 1, iterations + 1, parts, cache,
                  Append(scan, m))
    ELSE ScanBranch(content, m, TagBranch(cache, content, m), lastIndex,
                    iterations, parts, scan)

ScanLoop(content, rxLast, lastIndex, iterations, parts, cache, scan) ==
    ScanMatch(content, TagExec(content, rxLast), lastIndex, iterations, parts,
              cache, scan)

\* the remaining text (lines 301-304)
RemainingText(content, lastIndex) ==
    LET remainingText == Slice(content, lastIndex, Len(content))
    IN  IF TrimNonEmpty(remainingText)
        THEN <<Part("text", RawContent(remainingText), "undefined", lastIndex, Len(content))>>
        ELSE <<>>

\* what the function returns after the loop's outcome r (lines 300-321)
ParseResult(r, content, tagRegex) ==
    [threw |-> r.threw, capped |-> r.capped, scan |-> r.scan,
     emitted |-> r.parts,
     parts |-> IF r.threw THEN <<>>
               ELSE CleanedParts(r.parts \o RemainingText(content, r.lastIndex)),
     tagRegex |-> [tagRegex EXCEPT !.lastIndex = r.rxLast],
     cache |-> r.cache]

\* the function on the content it keeps, with its own regex object
\* (lines 206-321)
ParseContent(content, tagRegex, cache) ==
    ParseResult(ScanLoop(content, tagRegex.lastIndex, 0, 0, <<>>, cache, <<>>),
                content, tagRegex)

\* the whole function, given the module-level state it reads; it returns the
\* segments, whether it threw, and the regex object and cache it leaves
ParseMessageContent(content0, moduleRegex, cache) ==
    IF ~TrimNonEmpty(content0)
    THEN [threw |-> FALSE, capped |-> FALSE, scan |-> <<>>, emitted |-> <<>>,
          parts |-> <<Part("text", RawContent(<<>>), "undefined", 0, 0)>>,
          tagRegex |-> moduleRegex, cache |-> cache]
    ELSE ParseContent(IF Len(content0) > MAX_CONTENT_LENGTH
                      THEN Slice(content0, 0, MAX_CONTENT_LENGTH) ELSE content0,
                      NewTagRegex(moduleRegex), cache)

\* ------------------------------------------------------------------------
\* Specification of the tokenizer: parseMessageContent is called on buffers
\* that grow by chunks or are replaced, as useMemo does on every change of
\* the messages (lines 350-355)
\* ------------------------------------------------------------------------
PendingAttrs(rid) ==
    <<<<"request_id", rid>>, <<"tool", "file">>, <<"action", "write">>,
      <<"params_b64", "eyJhIjoxfQ==">>>>

ParseAlphabet ==
    {Txt("a"), Ws, Hdr, Open("thought", NoAttrs), Close("thought"),
     SelfClosing("tool_pending", PendingAttrs("r1"))}

\* the buffers over an alphabet, up to the length bound
BuffersWithin(alphabet, maxLen) == UNION {[1..n -> alphabet] : n \in 0..maxLen}

BuffersOf(alphabet) == BuffersWithin(alphabet, MaxLen)

Buffers == BuffersOf(ParseAlphabet)

EmptyCache == [x \in {} |-> x]

\* a buffer with more tag matches than MAX_ITERATIONS
CapBuffer == [i \in 1..(MAX_ITERATIONS + 1) |-> Open("thought", NoAttrs)]

ParseInitIn(buffers) ==
    /\ buffer \in buffers
    /\ segments = <<>>
    /\ threw = FALSE
    /\ phase = "new"
    /\ TAG_REGEX = ModuleTagRegex(0)
    /\ ATTR_REGEX_CACHE = EmptyCache

ParseInitOf(alphabet) == ParseInitIn(BuffersOf(alphabet))

ParseInit == ParseInitOf(ParseAlphabet)

\* one call of parseMessageContent(buffer)
Returned(r) ==
    /\ segments' = r.parts
    /\ threw' = r.threw
    /\ TAG_REGEX' = IF r.tagRegex.shared THEN r.tagRegex ELSE TAG_REGEX
    /\ ATTR_REGEX_CACHE' = r.cache

Parse ==
    /\ phase = "new"
    /\ Returned(ParseMessageContent(buffer, TAG_REGEX, ATTR_REGEX_CACHE))
    /\ phase' = "parsed"
    /\ UNCHANGED <<buffer, chatVars>>

\* a chunk is appended to the buffer
AppendWithin(alphabet, maxLen) ==
    /\ Len(buffer) < maxLen
    /\ \E t \in alphabet : buffer' = Append(buffer, t)
    /\ phase' = "new"
    /\ segments' = <<>>
    /\ threw' = FALSE
    /\ UNCHANGED <<TAG_REGEX, ATTR_REGEX_CACHE, chatVars>>

AppendFrom(alphabet) == AppendWithin(alphabet, MaxLen)

AppendToBuffer == AppendFrom(ParseAlphabet)

\* another message is parsed
OtherBuffer ==
    /\ phase = "parsed"
    /\ buffer' \in {<<>>, CapBuffer}
    /\ phase' = "new"
    /\ segments' = <<>>
    /\ threw' = FALSE
    /\ UNCHANGED <<TAG_REGEX, ATTR_REGEX_CACHE, chatVars>>

NextParse == Parse \/ AppendToBuffer \/ OtherBuffer

\* buffers of reasoning: thought and think tags, text, an approval request
ThoughtAlphabet ==
    {Txt("a"), Open("thought", NoAttrs), Close("thought"),
     Open("think", NoAttrs), Close("think"),
     SelfClosing("tool_pending", PendingAttrs("r1"))}

NextThought == Parse \/ AppendFrom(ThoughtAlphabet) \/ OtherBuffer

\* buffers of approval requests: well-formed ones, self-closing and paired,
\* one with a blank inside params_b64, and broken ones
ParamsAttrs(rid, paramsB64) ==
    <<<<"request_id", rid>>, <<"tool", "file">>, <<"action", "write">>,
      <<"params_b64", paramsB64>>>>

PendingAlphabet ==
    {Txt("a"),
     SelfClosing("tool_pending", PendingAttrs("r1")),
     Open("tool_pending", PendingAttrs("r1")),
     Close("tool_pending"),
     SelfClosing("tool_pending", ParamsAttrs("r1", "eyJh IjoxfQ==")),
     SelfClosing("tool_pending", ParamsAttrs("r1", "bm9wZQ==")),
     SelfClosing("tool_pending", ParamsAttrs("r1", "%%%")),
     SelfClosing("tool_pending", <<<<"request_id", "r1">>, <<"tool", "file">>>>),
     Open("tool_pending", NoAttrs)}

NextPending == Parse \/ AppendWithin(PendingAlphabet, MaxPendingLen) \/ OtherBuffer

\* buffers of tool calls with arguments: flat <argument name value />
\* children, nested <key>value</key> children, one of them with a key the
\* nested form leaves out, and inner text that begins with '{'
Argument(name, value) ==
    SelfClosing("argument", <<<<"name", name>>, <<"value", value>>>>)

ToolAlphabet ==
    {Txt("a"), Txt("{"), Ws,
     Open("tool", <<<<"name", "f">>>>), Close("tool"),
     Argument("k", "v"), Argument("k", "w"),
     Open("path", NoAttrs), Close("path"),
     Open("thought", NoAttrs), Close("thought")}

NextTool == Parse \/ AppendWithin(ToolAlphabet, MaxToolLen) \/ OtherBuffer

\* buffers of tool activity: tool calls and tool results
ResultAlphabet ==
    {Txt("a"), Open("tool_call", NoAttrs), Close("tool_call"),
     Open("tool_result", NoAttrs), Close("tool_result"),
     Open("tool", <<<<"name", "f">>>>)}

NextResult == Parse \/ AppendFrom(ResultAlphabet) \/ OtherBuffer

\* ------------------------------------------------------------------------
\* Claims about the tokenizer
\* ------------------------------------------------------------------------
\* the token at position i (1-based) lies inside a recognized paired tag:
\* an opening tag before it has no closing tag of its name in between
\* (a self-closing tag encloses nothing)
InsideTag(b, i) ==
    \E j \in 1..(i - 1) :
        /\ b[j].k = "open" /\ b[j].n \in TagNames /\ ~b[j].sc
        /\ ~\E c \in (j + 1)..(i - 1) : b[c].k = "close" /\ b[c].n = b[j].n

\* the token at position i is on the line of a leaked tool header, which the
\* sanitizer strips on purpose
OnHeaderLine(b, i) ==
    \E j \in 1..(i - 1) :
        /\ b[j].k = "hdr"
        /\ ~\E c \in (j + 1)..(i - 1) : b[c].k = "nl"

\* plain text outside every recognized tag
PlainOutside(b, i) == b[i].k = "text" /\ ~InsideTag(b, i) /\ ~OnHeaderLine(b, i)

InTextSegment(b, i) ==
    \E s \in 1..Len(segments) :
        /\ segments[s].type = "text"
        /\ segments[s].from < i /\ i <= segments[s].to
        /\ \E x \in 1..Len(segments[s].content.toks) : segments[s].content.toks[x] = b[i]

\* C6: every non-whitespace run of plain text that lies outside every
\* recognized tag, also after a self-closing tool_pending tag, appears in a
\* text segment of the output.
C6_NoPlainTextLost ==
    (phase = "parsed" /\ ~threw) =>
        \A i \in 1..Len(buffer) : PlainOutside(buffer, i) => InTextSegment(buffer, i)

\* the tokens a raw segment shows come from the span it was produced from
FromItsSpan(b, p) ==
    p.content.form = "raw" =>
        \A x \in 1..Len(p.content.toks) :
            \/ \E y \in (p.from + 1)..p.to : b[y] = p.content.toks[x]
            \/ p.content.toks[x] = Txt("}")

C8_PureFunctionOfBuffer ==
    phase = "parsed" =>
        LET fresh == ParseMessageContent(buffer, ModuleTagRegex(0), EmptyCache)
        IN  segments = fresh.parts /\ threw = fresh.threw

\* a call that found the cache filled by a call on another buffer
C8_Witness ==
    /\ phase = "parsed"
    /\ ATTR_REGEX_CACHE # EmptyCache
    /\ \A i \in 1..Len(buffer) : buffer[i].n # "tool_pending"
    /\ Len(segments) >= 2

\* ------------------------------------------------------------------------
\* ChatInterface: the conversation, the stream consumer and the approvals
\* ------------------------------------------------------------------------
ReqIds == {"r1"}

StreamIds == 1..MaxStreams

\* what reader.read() delivers in this model: an approval request followed
\* by a word, i.e.  <tool_pending request_id="r1" ... /> a
Chunks == {<<SelfClosing("tool_pending", PendingAttrs(r)), Txt("a")>> : r \in ReqIds}

UserMessage(prompt) == [role |-> "user", content |-> <<Txt(prompt)>>, sid |-> 0]
\* { role: 'assistant', content: '' } (line 557); sid names the stream that
\* appended it, for the claims only
Placeholder(s) == [role |-> "assistant", content |-> <<>>, sid |-> s]
\* line 619
ErrorTurn == [role |-> "assistant", content |-> <<Txt("Error: Failed to generate response.")>>, sid |-> 0]

TruncationMarker == Txt("...[truncated]")

\* shown is what the last flush of the stream wrote, for the claims only
IdleStream == [pc |-> "idle", acc |-> <<>>, chunkCount |-> 0, how |-> "none", shown |-> <<>>]

\* parsedMessages (lines 350-355): the segments of an assistant message
RenderedParts(msg) ==
    IF msg.role = "assistant"
    THEN ParseMessageContent(msg.content, ModuleTagRegex(0), EmptyCache).parts
    ELSE <<>>

\* a PendingActionBlock for request r is on screen (lines 915-917)
BlockRendered(r) ==
    \E i \in 1..Len(messages) :
        LET parts == RenderedParts(messages[i])
        IN  \E x \in 1..Len(parts) :
                parts[x].type = "pending" /\ parts[x].content.obj[1] = r

\* [mutant] the buttons stay whatever the status
ButtonsAlwaysShown(r) == TRUE

\* {!status && ( ...Approve... Deny... )} (lines 657, 687-704)
ButtonsShown(r) == votedActions[r] = "none"

\* [mutant] the status is not recorded when the button is clicked
VoteNotRecorded(voted, r, status) == voted

\* setVotedActions(prev => ({ ...prev, [pending.request_id]: status })) (lines 628, 644)
SetVoted(voted, r, status) == [voted EXCEPT ![r] = status]

\* a rejected await is delivered as a microtask, before any other event
\* the component is mounted: its handlers and continuations have an effect
Mounted == ~crashed

NoMicrotask == \A s \in StreamIds : streams[s].pc # "aborting"

ChatInit ==
    /\ messages = <<>>
    /\ loading = FALSE
    /\ votedActions = [r \in ReqIds |-> "none"]
    /\ abortControllerRef = 0
    /\ streams = [s \in StreamIds |-> IdleStream]
    /\ calls = <<>>
    /\ deletes = <<>>
    /\ crashed = FALSE
    /\ serverPendingCount = 0
    /\ serverStatus = [r \in ReqIds |-> "pending"]
    /\ alerts = [r \in ReqIds |-> 0]
    /\ issued = [r \in ReqIds |-> 0]
    /\ succeeded = [r \in ReqIds |-> 0]
    /\ failed = [r \in ReqIds |-> 0]
    /\ followUps = [r \in ReqIds |-> 0]

\* ------------------------------------------------------------------------
\* handleSubmit (lines 520-625)
\* ------------------------------------------------------------------------
HasFreeStream == \E s \in StreamIds : streams[s].pc = "idle"
NextStreamId == CHOOSE s \in StreamIds :
                    streams[s].pc = "idle" /\ \A t \in StreamIds : streams[t].pc = "idle" => s <= t

\* lines 526-550, past the guard and up to the await of fetch: the handler
\* works on the messages of the render it was created in
SubmitTurn(closureMessages, userMessage, s) ==
    /\ abortControllerRef' = s
    /\ messages' = Append(closureMessages, userMessage)
    /\ loading' = TRUE
    /\ streams' = [streams EXCEPT ![s] = [IdleStream EXCEPT !.pc = "fetch"]]

\* the user sends what was typed; the handler returns at once while loading
UserSubmit ==
    /\ Mounted
    /\ NoMicrotask
    /\ ~loading
    /\ HasFreeStream
    /\ SubmitTurn(messages, UserMessage("hi"), NextStreamId)
    /\ UNCHANGED <<votedActions, calls, chatHistory, deletes, crashed, serverPendingCount, serverStatus,
                   parseVars>>

\* the updater of lines 589-596 and 602-609
\* newMessages[newMessages.length - 1] is undefined when the list is empty,
\* and reading lastMsg.role then throws inside the updater
FlushThrows(prev) == prev = <<>>

Flush(prev, accumulatedResponse) ==
    IF prev # <<>> /\ prev[Len(prev)].role = "assistant"
    THEN [prev EXCEPT ![Len(prev)].content = accumulatedResponse]
    ELSE prev

\* [mutant] finally leaves the loading state set
LoadingKeptAfterFinally == TRUE

\* setLoading(false) (line 622)
LoadingAfterFinally == FALSE

\* finally (lines 621-624)
Finally(s, how) ==
    /\ loading' = LoadingAfterFinally
    /\ abortControllerRef' = 0
    /\ streams' = [streams EXCEPT ![s].pc = "done", ![s].how = how]

\* fetch resolves with a body: the placeholder is appended (lines 552-557)
FetchResolves(s) ==
    /\ Mounted
    /\ NoMicrotask
    /\ streams[s].pc = "fetch"
    /\ messages' = Append(messages, Placeholder(s))
    /\ streams' = [streams EXCEPT ![s].pc = "read"]
    /\ UNCHANGED <<loading, votedActions, abortControllerRef, calls, chatHistory, deletes, crashed, serverPendingCount, serverStatus,
                   parseVars>>

\* [mutant] the truncation keeps the marker only
TruncateToMarker(accumulated) == <<TruncationMarker>>

\* accumulatedResponse.substring(0, MAX_RESPONSE_LENGTH) + '\n...[truncated]'
\* (line 582)
Truncate(accumulated) ==
    SubSeq(accumulated, 1, MAX_RESPONSE_LENGTH) \o <<TruncationMarker>>

\* reader.read() resolves with a chunk (lines 567-598)
ReadChunkOf(s, chunks) ==
    /\ Mounted
    /\ NoMicrotask
    /\ streams[s].pc = "read"
    /\ \E chunk \in chunks, elapsed \in BOOLEAN :
        LET chunkCount == streams[s].chunkCount + 1
            accumulated == streams[s].acc \o chunk
            truncated == Truncate(accumulated)
        IN  IF chunkCount > MAX_CHUNKS
            THEN \* break, final update, finally
                 /\ messages' = Flush(messages, streams[s].acc)
                 /\ crashed' = FlushThrows(messages)
                 /\ loading' = LoadingAfterFinally
                 /\ abortControllerRef' = 0
                 /\ streams' = [streams EXCEPT ![s].pc = "done", ![s].how = "chunks",
                                               ![s].chunkCount = chunkCount,
                                               ![s].shown = streams[s].acc]
            ELSE IF Len(accumulated) > MAX_RESPONSE_LENGTH
            THEN \* truncate, break, final update, finally
                 /\ messages' = Flush(messages, truncated)
                 /\ crashed' = FlushThrows(messages)
                 /\ loading' = LoadingAfterFinally
                 /\ abortControllerRef' = 0
                 /\ streams' = [streams EXCEPT ![s].pc = "done", ![s].how = "length",
                                               ![s].chunkCount = chunkCount,
                                               ![s].acc = truncated,
                                               ![s].shown = truncated]
            ELSE /\ messages' = IF elapsed THEN Flush(messages, accumulated) ELSE messages
                 /\ crashed' = (elapsed /\ FlushThrows(messages))
                 /\ streams' = [streams EXCEPT ![s].chunkCount = chunkCount,
                                               ![s].acc = accumulated,
                                               ![s].shown = IF elapsed THEN accumulated ELSE @]
                 /\ UNCHANGED <<loading, abortControllerRef>>
    /\ UNCHANGED <<votedActions, calls, chatHistory, deletes, serverPendingCount, serverStatus,
                   parseVars>>

ReadChunk(s) == ReadChunkOf(s, Chunks)

\* reader.read() reports done: final update (lines 601-609), then finally
ReadDone(s) ==
    /\ Mounted
    /\ NoMicrotask
    /\ streams[s].pc = "read"
    /\ messages' = Flush(messages, streams[s].acc)
    /\ crashed' = FlushThrows(messages)
    /\ loading' = LoadingAfterFinally
    /\ abortControllerRef' = 0
    /\ streams' = [streams EXCEPT ![s].pc = "done", ![s].how = "done",
                                  ![s].shown = streams[s].acc]
    /\ UNCHANGED <<votedActions, calls, chatHistory, deletes, serverPendingCount, serverStatus,
                   parseVars>>

\* [mutant] every rejection is reported as an error turn
CaughtAlwaysReported(prev, name) == Append(prev, ErrorTurn)

\* catch (lines 614-620): an AbortError is logged, any other error appends
\* the error turn
Caught(prev, name) == IF name = "AbortError" THEN prev ELSE Append(prev, ErrorTurn)

\* fetch or reader.read() rejects with a transport error, or the response
\* has no body: catch, the error turn (lines 617-619), then finally
StreamFails(s) ==
    /\ Mounted
    /\ NoMicrotask
    /\ streams[s].pc \in {"fetch", "read"}
    /\ messages' = Caught(messages, "Error")
    /\ Finally(s, "error")
    /\ UNCHANGED <<votedActions, calls, chatHistory, deletes, crashed, serverPendingCount, serverStatus,
                   parseVars>>

\* handleStop (lines 460-465); the Stop button is rendered while loading.
\* abort() rejects the await the stream is at with an AbortError.
handleStop ==
    /\ Mounted
    /\ NoMicrotask
    /\ loading
    /\ abortControllerRef # 0
    /\ streams' = [streams EXCEPT ![abortControllerRef].pc =
                      IF @ \in {"fetch", "read"} THEN "aborting" ELSE @]
    /\ loading' = FALSE
    /\ UNCHANGED <<messages, votedActions, abortControllerRef, calls, chatHistory, deletes, crashed, serverPendingCount, serverStatus,
                   parseVars>>

\* the AbortError reaches catch (lines 615-616), then finally
AbortDelivered(s) ==
    /\ Mounted
    /\ streams[s].pc = "aborting"
    /\ messages' = Caught(messages, "AbortError")
    /\ Finally(s, "abort")
    /\ UNCHANGED <<votedActions, calls, chatHistory, deletes, crashed, serverPendingCount,
                   serverStatus, parseVars>>

\* ------------------------------------------------------------------------
\* handleApproveAction, handleDenyAction (lines 627-654)
\* ------------------------------------------------------------------------
RemoveAt(q, i) == SubSeq(q, 1, i - 1) \o SubSeq(q, i + 1, Len(q))

\* the click: the status is set at once and the request is sent; the handler
\* keeps the handleSubmit of the render it was created in, with that
\* render's loading and messages (sent is what the service held for the
\* request when the call was sent, for the claims only)
Click(r, kind, status) ==
    /\ Mounted
    /\ NoMicrotask
    /\ issued[r] < MaxCalls
    /\ ButtonsShown(r)
    /\ BlockRendered(r)
    /\ votedActions' = SetVoted(votedActions, r, status)
    /\ calls' = Append(calls, [kind |-> kind, rid |-> r,
                               loading |-> loading, messages |-> messages,
                               sent |-> serverStatus[r]])
    /\ issued' = [issued EXCEPT ![r] = @ + 1]
    /\ UNCHANGED <<messages, loading, abortControllerRef, streams,
                   alerts, succeeded, failed, followUps, deletes, crashed, serverPendingCount, serverStatus,
                   parseVars>>

ClickApprove(r) == Click(r, "approve", "approved")
ClickDeny(r) == Click(r, "deny", "denied")

\* the approval service resolves a request it holds as pending, and keeps
\* the resolution of a request that was resolved before
Resolve(status, r, kind) ==
    IF status[r] = "pending"
    THEN [status EXCEPT ![r] = IF kind = "approve" THEN "approved" ELSE "denied"]
    ELSE status

\* the request succeeded: handleSubmit(undefined, followUp) of the closure
\* (lines 631-636, 647-649), which returns at once when its loading is true
Returns(i, kind, followUp) ==
    /\ Mounted
    /\ NoMicrotask
    /\ i \in 1..Len(calls)
    /\ calls[i].kind = kind
    /\ calls' = RemoveAt(calls, i)
    /\ succeeded' = [succeeded EXCEPT ![calls[i].rid] = @ + 1]
    /\ IF calls[i].loading
       THEN UNCHANGED <<messages, loading, abortControllerRef, streams, followUps>>
       ELSE /\ HasFreeStream
            /\ SubmitTurn(calls[i].messages, UserMessage(followUp), NextStreamId)
            /\ followUps' = [followUps EXCEPT ![calls[i].rid] = @ + 1]
    /\ serverStatus' = Resolve(serverStatus, calls[i].rid, kind)
    /\ UNCHANGED <<votedActions, alerts, issued, failed, deletes, crashed, serverPendingCount,
                   parseVars>>

ApproveReturns(i) == Returns(i, "approve", "USER APPROVED: The action was APPROVED.")
DenyReturns(i) == Returns(i, "deny", "The user DENIED the action.")

\* [mutant] the catch block takes the status back
VotedRevertedInCatch(voted, r) == [voted EXCEPT ![r] = "none"]

\* the catch blocks (lines 637-640, 650-653) call no setVotedActions
VotedAfterCatch(voted, r) == voted

\* the request failed: catch, console.error and alert (lines 637-640, 650-653)
Fails(i, kind) ==
    /\ Mounted
    /\ NoMicrotask
    /\ i \in 1..Len(calls)
    /\ calls[i].kind = kind
    /\ calls' = RemoveAt(calls, i)
    /\ failed' = [failed EXCEPT ![calls[i].rid] = @ + 1]
    /\ alerts' = [alerts EXCEPT ![calls[i].rid] = @ + 1]
    /\ votedActions' = VotedAfterCatch(votedActions, calls[i].rid)
    /\ UNCHANGED <<messages, loading, abortControllerRef, streams,
                   issued, succeeded, followUps, deletes, crashed, serverPendingCount, serverStatus,
                   parseVars>>

ApproveFails(i) == Fails(i, "approve")
DenyFails(i) == Fails(i, "deny")

\* ------------------------------------------------------------------------
\* handleLoadSession (lines 514-518): a session of the history replaces the
\* conversation
\* ------------------------------------------------------------------------
\* the sessions fetchHistory lists: one earlier chat whose answer asked for
\* an approval
Sessions ==
    {<<UserMessage("hi"),
       [role |-> "assistant",
        content |-> <<SelfClosing("tool_pending", PendingAttrs("r1")), Txt("a")>>,
        sid |-> 0]>>}

handleLoadSession ==
    /\ Mounted
    /\ NoMicrotask
    /\ \E session \in Sessions :
          messages' = session
    /\ deletes' = [d \in 1..Len(deletes) |-> [deletes[d] EXCEPT !.at = -1]]
    /\ UNCHANGED <<loading, votedActions, abortControllerRef, streams, calls,
                   chatHistory, crashed, serverPendingCount, serverStatus,
                   parseVars>>

\* ------------------------------------------------------------------------
\* handleDeleteMessage (lines 467-485).  sessionId is set when the component
\* mounts (line 389) and only ever replaced by another generated id, so the
\* handler takes the path through the server.  A request in flight keeps the
\* index it was called with; at is where the message it was called for
\* stands now (-1 once that message is gone), for the claims only.
\* ------------------------------------------------------------------------
\* the trash button of the message at position index (lines 929-935)
ClickDelete(index) ==
    /\ Mounted
    /\ NoMicrotask
    /\ Len(deletes) < MaxDeletes
    /\ index \in 0..(Len(messages) - 1)
    /\ deletes' = Append(deletes, [index |-> index, at |-> index])
    /\ UNCHANGED <<messages, loading, votedActions, abortControllerRef, streams, calls,
                   chatHistory, crashed, serverPendingCount, serverStatus,
                   parseVars>>

\* prev.filter((_, i) => i !== index)
FilterIndex(prev, index) ==
    IF index < Len(prev) THEN RemoveAt(prev, index + 1) ELSE prev

\* where the messages of the other requests stand once position k is removed
AfterRemoval(ds, k) ==
    [d \in 1..Len(ds) |->
        [ds[d] EXCEPT !.at = IF @ = k THEN -1 ELSE IF @ > k THEN @ - 1 ELSE @]]

\* the server answered: line 479
DeleteReturns(i) ==
    /\ Mounted
    /\ NoMicrotask
    /\ i \in 1..Len(deletes)
    /\ messages' = FilterIndex(messages, deletes[i].index)
    /\ deletes' = IF deletes[i].index < Len(messages)
                  THEN AfterRemoval(RemoveAt(deletes, i), deletes[i].index)
                  ELSE RemoveAt(deletes, i)
    /\ UNCHANGED <<loading, votedActions, abortControllerRef, streams, calls,
                   chatHistory, crashed, serverPendingCount, serverStatus,
                   parseVars>>

\* the request failed: catch, console.error and alert (lines 481-484)
DeleteFails(i) ==
    /\ Mounted
    /\ NoMicrotask
    /\ i \in 1..Len(deletes)
    /\ deletes' = RemoveAt(deletes, i)
    /\ UNCHANGED <<messages, loading, votedActions, abortControllerRef, streams, calls,
                   chatHistory, crashed, serverPendingCount, serverStatus,
                   parseVars>>

\* ------------------------------------------------------------------------
\* handleNewChat (lines 506-512): asks for confirmation when there are
\* messages, then clears the conversation.  It stops no stream and takes
\* back no request.
\* ------------------------------------------------------------------------
\* [mutant] a new chat forgets the statuses
VotedClearedByNewChat(voted) == [r \in DOMAIN voted |-> "none"]

\* handleNewChat calls no setVotedActions
VotedAfterNewChat(voted) == voted

handleNewChat ==
    /\ Mounted
    /\ NoMicrotask
    /\ \E confirmed \in BOOLEAN :
          IF messages # <<>> /\ ~confirmed
          THEN UNCHANGED <<messages, votedActions, deletes>>
          ELSE /\ messages' = <<>>
               /\ votedActions' = VotedAfterNewChat(votedActions)
               /\ deletes' = [d \in 1..Len(deletes) |-> [deletes[d] EXCEPT !.at = -1]]
    /\ UNCHANGED <<loading, abortControllerRef, streams, calls,
                   chatHistory, crashed, serverPendingCount, serverStatus,
                   parseVars>>

\* ------------------------------------------------------------------------
\* fetchPendingCount (lines 378-385), called every ten seconds (line 413)
\* and after an approval or denial went through (lines 632, 647): the
\* number of requests the server holds, for the badge of line 786
\* ------------------------------------------------------------------------
PendingCounts == 0..1

fetchPendingCount ==
    /\ Mounted
    /\ NoMicrotask
    /\ \E pending \in PendingCounts : serverPendingCount' = pending
    /\ UNCHANGED <<messages, loading, votedActions, abortControllerRef, streams, calls,
                   deletes, crashed, chatHistory, serverStatus, parseVars>>

\* ------------------------------------------------------------------------
\* The settings dashboard (app/settings/page.tsx, lines 159-176): its
\* handleApprove and handleDeny post to the same endpoints for a request the
\* dashboard lists as pending.  What the service answers to a later approve
\* or deny of that request from the chat is not fixed: it may accept or
\* reject it (ApproveReturns, ApproveFails, DenyReturns, DenyFails).
\* ------------------------------------------------------------------------
handleApprove(r) ==
    /\ NoMicrotask
    /\ serverStatus[r] = "pending"
    /\ serverStatus' = Resolve(serverStatus, r, "approve")
    /\ UNCHANGED <<messages, loading, votedActions, abortControllerRef, streams, calls,
                   deletes, crashed, serverPendingCount, chatHistory, parseVars>>

handleDeny(r) ==
    /\ NoMicrotask
    /\ serverStatus[r] = "pending"
    /\ serverStatus' = Resolve(serverStatus, r, "deny")
    /\ UNCHANGED <<messages, loading, votedActions, abortControllerRef, streams, calls,
                   deletes, crashed, serverPendingCount, chatHistory, parseVars>>

\* ------------------------------------------------------------------------
\* Specifications
\* ------------------------------------------------------------------------
\* the tokenizer alone, the chat at rest
InitParse == ParseInit /\ ChatInit

SpecParse == InitParse /\ [][NextParse]_vars

InitTool == ParseInitIn(BuffersWithin(ToolAlphabet, MaxToolLen)) /\ ChatInit

SpecTool == InitTool /\ [][NextTool]_vars

InitPending == ParseInitIn(BuffersWithin(PendingAlphabet, MaxPendingLen)) /\ ChatInit

SpecPending == InitPending /\ [][NextPending]_vars

InitResult == ParseInitOf(ResultAlphabet) /\ ChatInit

SpecResult == InitResult /\ [][NextResult]_vars

InitThought == ParseInitOf(ThoughtAlphabet) /\ ChatInit

SpecThought == InitThought /\ [][NextThought]_vars

\* the chat, the tokenizer called from the render only
Init ==
    /\ ChatInit
    /\ buffer = <<>> /\ segments = <<>> /\ threw = FALSE /\ phase = "new"
    /\ TAG_REGEX = ModuleTagRegex(0) /\ ATTR_REGEX_CACHE = EmptyCache

Next ==
    \/ UserSubmit
    \/ handleStop
    \/ handleLoadSession
    \/ \E s \in StreamIds : FetchResolves(s)
    \/ \E s \in StreamIds : ReadChunk(s)
    \/ \E s \in StreamIds : ReadDone(s)
    \/ \E s \in StreamIds : StreamFails(s)
    \/ \E s \in StreamIds : AbortDelivered(s)
    \/ \E r \in ReqIds : ClickApprove(r)
    \/ \E r \in ReqIds : ClickDeny(r)
    \/ \E i \in 1..MaxCalls * Cardinality(ReqIds) : ApproveReturns(i)
    \/ \E i \in 1..MaxCalls * Cardinality(ReqIds) : DenyReturns(i)
    \/ \E i \in 1..MaxCalls * Cardinality(ReqIds) : ApproveFails(i)
    \/ \E i \in 1..MaxCalls * Cardinality(ReqIds) : DenyFails(i)

Spec == Init /\ [][Next]_vars

\* the chat next to the settings dashboard
NextDashboard ==
    \/ Next
    \/ \E r \in ReqIds : handleApprove(r)
    \/ \E r \in ReqIds : handleDeny(r)

SpecDashboard == Init /\ [][NextDashboard]_vars

\* what reader.read() delivers in the streams that are followed to their
\* end: a word, or an approval request with two words
LiveChunks ==
    {<<Txt("a")>>,
     <<SelfClosing("tool_pending", PendingAttrs("r1")), Txt("a"), Txt("a")>>}

\* an await of the stream settles: fetch resolves or rejects, reader.read()
\* resolves with a chunk or with done, or rejects
Settles(s) ==
    \/ FetchResolves(s)
    \/ ReadChunkOf(s, LiveChunks)
    \/ ReadDone(s)
    \/ StreamFails(s)
    \/ AbortDelivered(s)

\* a turn is followed from a new chat or from a session loaded into it
NextLive ==
    \/ UserSubmit
    \/ handleStop
    \/ messages = <<>> /\ handleLoadSession
    \/ \E s \in StreamIds : Settles(s)
    \/ \E r \in ReqIds : ClickApprove(r)
    \/ \E i \in 1..MaxCalls * Cardinality(ReqIds) : ApproveReturns(i)

\* every pending await of a stream settles in the end
SpecLive ==
    Init /\ [][NextLive]_vars /\ \A s \in StreamIds : WF_vars(Settles(s))

\* the conversation under deletions: turns, streams and the trash buttons
NextDelete ==
    \/ UserSubmit
    \/ \E s \in StreamIds : FetchResolves(s)
    \/ \E s \in StreamIds : ReadChunk(s)
    \/ \E s \in StreamIds : ReadDone(s)
    \/ \E s \in StreamIds : StreamFails(s)
    \/ \E index \in 0..(2 * MaxStreams + 2) : ClickDelete(index)
    \/ \E i \in 1..MaxDeletes : DeleteReturns(i)
    \/ \E i \in 1..MaxDeletes : DeleteFails(i)

SpecDelete == Init /\ [][NextDelete]_vars

\* the operations that could touch the statuses: turns and their chunks,
\* approvals and denials, a loaded session, a new chat, the pending-count
\* query, and the trash button, used here between turns (SpecDelete has the
\* deletions during a stream)
NextFrame ==
    \/ UserSubmit
    \/ handleLoadSession
    \/ handleNewChat
    \/ fetchPendingCount
    \/ \E s \in StreamIds : FetchResolves(s)
    \/ \E s \in StreamIds : ReadChunk(s)
    \/ \E s \in StreamIds : ReadDone(s)
    \/ \E r \in ReqIds : ClickApprove(r)
    \/ \E r \in ReqIds : ClickDeny(r)
    \/ \E i \in 1..MaxCalls * Cardinality(ReqIds) : ApproveReturns(i)
    \/ \E i \in 1..MaxCalls * Cardinality(ReqIds) : DenyReturns(i)
    \/ \E index \in 0..(2 * MaxStreams + 2) :
          deletes = <<>> /\ calls = <<>> /\ ~loading /\ ClickDelete(index)
    \/ \E i \in 1..MaxDeletes : DeleteReturns(i)

SpecFrame == Init /\ [][NextFrame]_vars

\* ------------------------------------------------------------------------
\* Claims about approvals and streaming (specification Spec)
\* ------------------------------------------------------------------------
CallsFor(r) == {i \in 1..Len(calls) : calls[i].rid = r}

\* C1: once the local status of a request is approved or denied, no step
\* changes it again.
C1_ResolvedStatusIsFinal ==
    [][\A r \in ReqIds :
          votedActions[r] # "none" => votedActions'[r] = votedActions[r]]_vars

\* a denied request whose call failed, its block still on screen
C1_Witness ==
    /\ votedActions["r1"] = "denied"
    /\ failed["r1"] = 1
    /\ CallsFor("r1") = {}
    /\ BlockRendered("r1")

\* C2: after a failed approve or deny call the status is unresolved again,
\* the error was reported and no follow-up message was submitted.
C2_FailureLeavesUnresolved ==
    \A r \in ReqIds :
        (failed[r] > 0 /\ succeeded[r] = 0 /\ CallsFor(r) = {})
            => /\ votedActions[r] = "none"
               /\ alerts[r] = failed[r]
               /\ followUps[r] = 0

\* C3: while the local status of a request is approved or denied, no step
\* issues an approve or deny call for it.
C3_NoCallOnceResolved ==
    [][\A r \in ReqIds :
          votedActions[r] # "none"
              => issued'[r] = issued[r] /\ CallsFor(r)' \subseteq CallsFor(r)]_vars

\* an approved request whose call succeeded, its block still on screen
C3_Witness ==
    /\ votedActions["r1"] = "approved"
    /\ succeeded["r1"] = 1
    /\ issued["r1"] = 1
    /\ BlockRendered("r1")

\* C4: at most one approve or deny call per request is in flight.
C4_OneCallInFlight ==
    \A r \in ReqIds : Cardinality(CallsFor(r)) <= 1

\* a call in flight while a stream is being read
C4_Witness ==
    /\ Cardinality(CallsFor("r1")) = 1
    /\ votedActions["r1"] # "none"
    /\ \E s \in StreamIds : streams[s].pc = "read" /\ streams[s].chunkCount > 0

\* C5: every approve or deny call that succeeded submitted exactly one
\* follow-up message, whether or not a stream was in flight.
C5_SuccessSubmitsFollowUp ==
    \A r \in ReqIds : followUps[r] = succeeded[r]

\* C9: after a cancellation the assistant message of the stream shows
\* everything the stream accumulated.
C9_CancelKeepsAccumulated ==
    \A s \in StreamIds :
        streams[s].how = "abort"
            => \A i \in 1..Len(messages) :
                   messages[i].sid = s => messages[i].content = streams[s].acc

\* C10: when a stream ends normally its assistant message shows the
\* concatenation of all the chunks received.
C10_DoneShowsAllChunks ==
    [][\A s \in StreamIds :
          (streams[s].pc = "read" /\ streams'[s].how = "done")
              => \A i \in 1..Len(messages') :
                     messages'[i].sid = s => messages'[i].content = streams'[s].acc]_vars

\* C11: after a transport failure the turn of the failed stream has exactly
\* one assistant message, the error turn: no assistant message appended for
\* that stream stays beside it.
C11_ErrorTurnReplacesResponse ==
    [][\A s \in StreamIds :
          (streams[s].how # "error" /\ streams'[s].how = "error")
              => /\ messages'[Len(messages')] = ErrorTurn
                 /\ \A i \in 1..Len(messages') : messages'[i].sid # s]_vars

\* ------------------------------------------------------------------------
\* Claims about deletions (specification SpecDelete)
\* ------------------------------------------------------------------------
\* the request whose answer this step handled, if the step is DeleteReturns
Answered(i) ==
    /\ i \in 1..Len(deletes)
    /\ Len(deletes') = Len(deletes) - 1
    /\ \A d \in 1..Len(deletes') :
          deletes'[d].index = RemoveAt(deletes, i)[d].index

\* C12: a delete request removes exactly the message that stood at its
\* position when it was made (nothing when that message is gone already) and
\* leaves every other message in place and in order.
C12_DeleteRemovesRequestedMessage ==
    [][(Len(deletes') < Len(deletes) /\ messages' # messages)
          => \E i \in 1..Len(deletes) :
                 /\ Answered(i)
                 /\ deletes[i].at >= 0
                 /\ messages' = RemoveAt(messages, deletes[i].at + 1)]_vars

\* ------------------------------------------------------------------------
\* Claims about the segments of single tags (specifications SpecThought, ...)
\* ------------------------------------------------------------------------
\* the buffer is parsed whole: it is no longer than MAX_CONTENT_LENGTH and
\* the scan does not stop at MAX_ITERATIONS
WithinCaps(b) ==
    /\ Len(b) <= MAX_CONTENT_LENGTH
    /\ ~ParseMessageContent(b, ModuleTagRegex(0), EmptyCache).capped

\* an opening tag of one of the names, outside every other recognized tag
TopLevelOpen(b, j, names) ==
    /\ b[j].k = "open" /\ b[j].n \in names
    /\ ~InsideTag(b, j)

\* the positions of the closing tags of the tag opened at j
ClosesOf(b, j) == {c \in (j + 1)..Len(b) : b[c].k = "close" /\ b[c].n = b[j].n}

\* the text the tag opened at j encloses: up to its first closing tag, or to
\* the end of the buffer
InnerOf(b, j) ==
    IF ClosesOf(b, j) = {} THEN SubSeq(b, j + 1, Len(b))
    ELSE SubSeq(b, j + 1, (CHOOSE c \in ClosesOf(b, j) : \A d \in ClosesOf(b, j) : c <= d) - 1)

\* the tag opened at j is not opened again inside itself
NotReopened(b, j) ==
    \A i \in 1..Len(InnerOf(b, j)) :
        ~(InnerOf(b, j)[i].k = "open" /\ InnerOf(b, j)[i].n = b[j].n)

\* the segments produced from the tag opened at j
SegmentsOf(j) == {s \in 1..Len(segments) : segments[s].from = j - 1}

\* C13: a thought or think tag without its closing tag yields one thought
\* segment with the text up to the buffer end and streaming=true; with its
\* closing tag, one thought segment with the inner text and streaming=false
\* (stated for tags that are not opened again inside themselves).
C13_ThoughtSegment ==
    (phase = "parsed" /\ ~threw /\ WithinCaps(buffer)) =>
        \A j \in 1..Len(buffer) :
            (TopLevelOpen(buffer, j, {"thought", "think"}) /\ NotReopened(buffer, j)) =>
                /\ Cardinality(SegmentsOf(j)) = 1
                /\ \A s \in SegmentsOf(j) :
                      /\ segments[s].type = "thought"
                      /\ segments[s].content = RawContent(InnerOf(buffer, j))
                      /\ segments[s].isStreaming =
                             IF ClosesOf(buffer, j) = {} THEN "true" ELSE "false"

\* C14: the tool segment of a tool or tool_call tag without its closing tag
\* is flagged streaming=true, and with its closing tag streaming=false.
C14_ToolStreamingFlag ==
    (phase = "parsed" /\ ~threw /\ WithinCaps(buffer)) =>
        \A j \in 1..Len(buffer) :
            (TopLevelOpen(buffer, j, {"tool", "tool_call"}) /\ NotReopened(buffer, j)) =>
                \A s \in SegmentsOf(j) :
                    segments[s].type = "tool" =>
                        IF ClosesOf(buffer, j) = {}
                        THEN segments[s].isStreaming = "true"
                        ELSE segments[s].isStreaming \in {"false", "undefined"}

\* the token at position i is text inside a tool_result tag: after its
\* opening tag and before its closing tag, or the buffer end
InsideResult(b, i) ==
    /\ b[i].k = "text"
    /\ \E j \in 1..(i - 1) :
          /\ TopLevelOpen(b, j, {"tool_result"}) /\ NotReopened(b, j)
          /\ ~\E c \in (j + 1)..(i - 1) : b[c].k = "close" /\ b[c].n = "tool_result"

\* a segment shows the token at position i
InSomeSegment(b, i) ==
    \E s \in 1..Len(segments) :
        /\ segments[s].from < i /\ i <= segments[s].to
        /\ \E x \in 1..Len(segments[s].content.toks) : segments[s].content.toks[x] = b[i]

\* C15: no segment contains text that lies inside a tool_result tag, also
\* when the scan stops at MAX_ITERATIONS.
C15_ToolResultDiscarded ==
    (phase = "parsed" /\ ~threw) =>
        \A i \in 1..Len(buffer) : InsideResult(buffer, i) => ~InSomeSegment(buffer, i)

\* ------------------------------------------------------------------------
\* Claims about the limits of the tokenizer (specification SpecParse)
\* ------------------------------------------------------------------------
\* the scan of the buffer: the call in the pristine module state
ScanOf(b) == ParseMessageContent(b, ModuleTagRegex(0), EmptyCache)

MarkerShown(parts) ==
    \E x \in 1..Len(parts) :
        \E y \in 1..Len(parts[x].content.toks) :
            parts[x].content.toks[y] = TruncationMarker

\* C17: the segments of a buffer longer than MAX_CONTENT_LENGTH show a
\* truncation marker.
C17_TruncationMarkerShown ==
    (phase = "parsed" /\ ~threw /\ Len(buffer) > MAX_CONTENT_LENGTH) => MarkerShown(segments)

\* ------------------------------------------------------------------------
\* Claims about approval requests in the buffer (specification SpecPending)
\* ------------------------------------------------------------------------
\* the value an attribute of the tag has, "" when the tag does not carry it
AttrOf(t, name) ==
    IF \E x \in 1..Len(t.a) : t.a[x][1] = name
    THEN t.a[CHOOSE x \in 1..Len(t.a) : t.a[x][1] = name][2]
    ELSE ""

\* params_b64 values that are base64 of JSON once their whitespace is
\* removed, with the value they stand for
ParamsOf(v) == IF v \in {"eyJhIjoxfQ==", "eyJh IjoxfQ=="} THEN "{a:1}" ELSE Null

\* the tag carries the four attributes, and its params_b64 decodes
WellFormedPending(t) ==
    /\ \A x \in 1..Len(PendingAttrNames) : AttrOf(t, PendingAttrNames[x]) # ""
    /\ ParamsOf(AttrOf(t, "params_b64")) # Null

\* C18: a well-formed tool_pending tag, paired or self-closing, yields
\* exactly one pending segment with its request_id, tool, action and the
\* parsed params; its block offers the buttons while the request is
\* unresolved.
C18_PendingSegment ==
    (phase = "parsed" /\ WithinCaps(buffer)) =>
        \A j \in 1..Len(buffer) :
            (TopLevelOpen(buffer, j, {"tool_pending"}) /\ WellFormedPending(buffer[j])) =>
                /\ ~threw
                /\ Cardinality(SegmentsOf(j)) = 1
                /\ \A s \in SegmentsOf(j) :
                      /\ segments[s].type = "pending"
                      /\ segments[s].content =
                            JsonContent(<<AttrOf(buffer[j], "request_id"),
                                          AttrOf(buffer[j], "tool"),
                                          AttrOf(buffer[j], "action"),
                                          ParamsOf(AttrOf(buffer[j], "params_b64"))>>)
                      /\ votedActions[AttrOf(buffer[j], "request_id")] = "none"
                            => ButtonsShown(AttrOf(buffer[j], "request_id"))

\* C19: a tool_pending tag that lacks one of the four attributes, or whose
\* params_b64 does not decode, yields no pending segment, and the call
\* returns a segment list without raising.
C19_BrokenPendingDropped ==
    phase = "parsed" =>
        /\ ~threw
        /\ \A j \in 1..Len(buffer) :
              (TopLevelOpen(buffer, j, {"tool_pending"}) /\ ~WellFormedPending(buffer[j])) =>
                  \A s \in SegmentsOf(j) : segments[s].type # "pending"

\* the flat children of the inner text of a tool tag: the argument elements
\* that carry a name and a value
FlatChildren(inner) ==
    {i \in 1..Len(inner) :
        /\ inner[i].k = "open" /\ inner[i].n = "argument"
        /\ AttrOf(inner[i], "name") # "" /\ AttrOf(inner[i], "value") # ""}

\* the closing tags of the element opened at i of the inner text
ClosesIn(inner, i) ==
    {c \in (i + 1)..Len(inner) : inner[c].k = "close" /\ inner[c].n = inner[i].n}

FirstCloseIn(inner, i) ==
    CHOOSE c \in ClosesIn(inner, i) : \A d \in ClosesIn(inner, i) : c <= d

\* an element <key> ... </key> of the inner text
PairedIn(inner, i) ==
    /\ inner[i].k = "open" /\ ~inner[i].sc /\ inner[i].a = NoAttrs
    /\ ClosesIn(inner, i) # {}

\* the nested children: the paired elements that lie in no other one
NestedChildren(inner) ==
    {i \in 1..Len(inner) :
        /\ PairedIn(inner, i)
        /\ ~\E h \in 1..(i - 1) : PairedIn(inner, h) /\ FirstCloseIn(inner, h) > i}

\* args is the flat-form map of the inner text
IsFlatMap(args, inner) ==
    /\ DOMAIN args = {AttrOf(inner[i], "name") : i \in FlatChildren(inner)}
    /\ \A i \in FlatChildren(inner) :
          (\A h \in FlatChildren(inner) :
                AttrOf(inner[h], "name") = AttrOf(inner[i], "name") => h <= i)
              => args[AttrOf(inner[i], "name")] = <<Txt(AttrOf(inner[i], "value"))>>

\* args is the nested-form map of the inner text
IsNestedMap(args, inner) ==
    /\ DOMAIN args =
          {inner[i].n : i \in NestedChildren(inner)} \ {"arguments", "thought", "think"}
    /\ \A i \in NestedChildren(inner) :
          (/\ inner[i].n \in DOMAIN args
           /\ \A h \in NestedChildren(inner) : inner[h].n = inner[i].n => h <= i)
              => args[inner[i].n] =
                    Trim(SubSeq(inner, i + 1, FirstCloseIn(inner, i) - 1))

\* C20: for a tool tag with a name attribute whose inner text does not
\* begin with '{', the content of its tool segment is the JSON of the name
\* and the arguments; the arguments are the flat-form map when the inner
\* text has a flat child, and otherwise the nested-form map, without the
\* keys arguments, thought and think.
C20_ToolArguments ==
    (phase = "parsed" /\ ~threw /\ WithinCaps(buffer)) =>
        \A j \in 1..Len(buffer) :
            (/\ TopLevelOpen(buffer, j, {"tool"})
             /\ AttrOf(buffer[j], "name") # ""
             /\ NotReopened(buffer, j)
             /\ ~StartsWithBrace(InnerOf(buffer, j))) =>
                /\ Cardinality(SegmentsOf(j)) = 1
                /\ \A s \in SegmentsOf(j) :
                      /\ segments[s].type = "tool"
                      /\ segments[s].content.form = "json"
                      /\ segments[s].content.obj[1] = AttrOf(buffer[j], "name")
                      /\ IF FlatChildren(InnerOf(buffer, j)) # {}
                         THEN IsFlatMap(segments[s].content.obj[2], InnerOf(buffer, j))
                         ELSE IsNestedMap(segments[s].content.obj[2], InnerOf(buffer, j))

\* a tool call with one nested argument, before its closing tag arrives
C20_Witness ==
    /\ phase = "parsed"
    /\ buffer = <<Open("tool", <<<<"name", "f">>>>), Open("path", NoAttrs),
                  Txt("a"), Close("path")>>
    /\ Len(segments) = 1
    /\ segments[1].content = JsonContent(<<"f", [x \in {"path"} |-> <<Txt("a")>>]>>)

\* C21: no text segment of the returned list has empty content, for every
\* buffer, the empty one and the ones of whitespace only included.
C21_NoEmptyTextSegment ==
    (phase = "parsed" /\ ~threw) =>
        \A s \in 1..Len(segments) :
            segments[s].type = "text" => segments[s].content.toks # <<>>

\* C22: the statuses are changed by the Approve and Deny operations only: a
\* step that sends no approve or deny request (a chunk, a flush, a
\* deletion, a new chat, a loaded session, the pending-count query) leaves
\* the status of every request as it was.
C22_StatusChangedOnlyByVote ==
    [][(\A r \in ReqIds : issued'[r] = issued[r]) => votedActions' = votedActions]_vars

\* a status that outlived a new chat and a pending-count query
C22_Witness ==
    /\ votedActions["r1"] = "approved"
    /\ messages = <<>>
    /\ serverPendingCount = 1
    /\ calls = <<>>

\* C23: a flush of a stream, throttled or final, writes only into the
\* assistant message that was appended for that stream, whatever messages
\* the user deleted in the meantime: it changes the content of no other
\* message.
C23_FlushWritesOwnMessage ==
    [][\A s \in StreamIds :
          (streams[s].pc = "read" /\ streams'[s] # streams[s]) =>
              \A i \in 1..Len(messages) :
                  (i <= Len(messages') /\ messages'[i] # messages[i]) =>
                      messages[i].sid = s]_vars

\* C24: submitting a turn only appends: when a handleSubmit gets past its
\* guard, typed by the user or issued as a follow-up of an approval or a
\* denial, the messages that were in the list are still there in the same
\* order, followed by the new user message.
C24_SubmitOnlyAppends ==
    [][\A s \in StreamIds :
          (streams[s].pc = "idle" /\ streams'[s].pc = "fetch") =>
              /\ Len(messages') = Len(messages) + 1
              /\ SubSeq(messages', 1, Len(messages)) = messages
              /\ messages'[Len(messages')].role = "user"]_vars

\* C25: approving or denying in the chat a request that the approval
\* service has already resolved (from the settings dashboard) is taken as a
\* success or as nothing: whatever the service answers, no error is
\* reported to the user.
C25_ResolvedElsewhereNoError ==
    [][\A i \in 1..Len(calls) :
          (calls[i].sent # "pending" /\ calls' = RemoveAt(calls, i)) =>
              alerts' = alerts]_vars

\* the same buffer with its tool tags written as tool_call tags
AsToolCall(b) ==
    [i \in 1..Len(b) |-> IF b[i].n = "tool" /\ b[i].k \in {"open", "close"}
                         THEN [b[i] EXCEPT !.n = "tool_call"] ELSE b[i]]

\* the type and content of each segment
Shown(parts) == [i \in 1..Len(parts) |-> <<parts[i].type, parts[i].content>>]

\* C26: tool_call and tool are aliases: with the same attributes and the
\* same inner text, a tool_call tag yields a tool segment with the content
\* the tool tag yields, the arguments extracted for a name attribute
\* included.
C26_ToolCallAliasOfTool ==
    (phase = "parsed" /\ ~threw /\ WithinCaps(buffer)) =>
        Shown(segments) =
            Shown(ParseMessageContent(AsToolCall(buffer), ModuleTagRegex(0), EmptyCache).parts)

\* C27: a cancel by the user is not reported as an error: the step in which
\* a cancelled stream ends appends no message, whereas the step in which a
\* stream ends on any other failure appends the error turn.
C27_CancelIsNoError ==
    [][\A s \in StreamIds :
          /\ (streams[s].pc = "aborting" /\ streams'[s].pc = "done") =>
                messages' = messages
          /\ (streams[s].pc # "done" /\ streams'[s].how = "error") =>
                messages' = Append(messages, ErrorTurn)]_vars

\* a stream that was cancelled while it was read, and its conversation
C27_Witness ==
    /\ \E s \in StreamIds : streams[s].how = "abort" /\ streams[s].acc # <<>>
    /\ Len(messages) >= 2
    /\ \A i \in 1..Len(messages) : messages[i] # ErrorTurn

\* p is a prefix of q
IsPrefix(p, q) == Len(p) <= Len(q) /\ SubSeq(q, 1, Len(p)) = p

\* C28: within one stream the displayed buffer only grows by appending: what
\* a flush writes starts with what the previous flush of the stream wrote,
\* also when the flush follows the truncation at MAX_RESPONSE_LENGTH, and it
\* is never longer than MAX_RESPONSE_LENGTH plus the marker.
C28_FlushesOnlyAppend ==
    [][\A s \in StreamIds :
          /\ IsPrefix(streams[s].shown, streams'[s].shown)
          /\ Len(streams'[s].shown) <= MAX_RESPONSE_LENGTH + 1]_vars

\* a stream that flushed a chunk and then the truncated response
C28_Witness ==
    \E s \in StreamIds :
        /\ streams[s].how = "length"
        /\ streams[s].shown = streams[s].acc
        /\ Len(streams[s].shown) = MAX_RESPONSE_LENGTH + 1
        /\ streams[s].shown[Len(streams[s].shown)] = TruncationMarker

\* the streams that are at an await of handleSubmit
InFlight == {s \in StreamIds : streams[s].pc \in {"fetch", "read", "aborting"}}

\* C29: at most one stream-read loop is in flight at any time, and the
\* abort controller refers to the stream in flight.
C29_OneStreamInFlight ==
    /\ Cardinality(InFlight) <= 1
    /\ \A s \in InFlight : abortControllerRef = s

\* C30: every started stream ends and releases the loading state: whether
\* the reader reports done, a cap is hit, the user cancels or the transport
\* fails, the stream reaches its finally, where loading is false and the
\* abort controller reference is cleared.
C30_StreamEndsAndReleases ==
    \A s \in StreamIds :
        (streams[s].pc \in {"fetch", "read", "aborting"})
            ~> (streams[s].pc = "done" /\ ~loading /\ abortControllerRef = 0)

\* a stream that the chunk cap ended
C30_Witness ==
    \E s \in StreamIds :
        /\ streams[s].how = "chunks"
        /\ streams[s].chunkCount > MAX_CHUNKS
        /\ ~loading
        /\ abortControllerRef = 0

====
